---------------------------- MODULE Spec2Model ----------------------------
(***************************************************************************)
(* Model of the single-zone greenhouse estimator (greenhouse_estimator):   *)
(* the actuation resolver (actuators.py), the psychrometric conversions    *)
(* (psychrometrics.py), the explicit-Euler loop of simulate (simulator.py) *)
(* and the wrapper estimate_environment (__init__.py).                     *)
(*                                                                         *)
(* Python floats are modelled as binary floating-point numbers <<m, e>>    *)
(* of value m * 2^e whose mantissa keeps MantBits significant bits (a      *)
(* double keeps 53), every operation rounding to nearest, ties to even, as *)
(* IEEE-754 does.  The exponent is unbounded, except that exp underflows   *)
(* to zero where a double does.                                            *)
(***************************************************************************)
EXTENDS Integers, Sequences, FiniteSets, TLC

\* ------------------------------------------------------------------------
\* Bounds of the model
\* ------------------------------------------------------------------------
MantBits == 10   \* significant bits of a modelled float
MaxCalls == 2    \* calls of simulate / estimate_environment in one behaviour

\* ------------------------------------------------------------------------
\* Floating-point arithmetic
\* ------------------------------------------------------------------------
Abs(n) == IF n < 0 THEN -n ELSE n

Sgn(n) == IF n < 0 THEN -1 ELSE IF n > 0 THEN 1 ELSE 0

RECURSIVE BitLen(_)
BitLen(n) == IF n = 0 THEN 0 ELSE 1 + BitLen(n \div 2)

Zero == <<0, 0>>

\* the quotient q of a mantissa by 2^s, rounded to nearest by its remainder
\* r, ties to even
RoundHalfEven(q, r, half) ==
  IF r > half \/ (r = half /\ q % 2 = 1) THEN q + 1 ELSE q

\* a rounded mantissa that reached 2^MantBits carries into the exponent
Carry(sg, q, e) ==
  IF q = 2^MantBits THEN <<sg * 2^(MantBits - 1), e + 1>> ELSE <<sg * q, e>>

\* m of L bits: padded on the right to MantBits bits, or its s = L - MantBits
\* lowest bits rounded away
Fit(m, e, L) ==
  IF L <= MantBits THEN <<m * 2^(MantBits - L), e - (MantBits - L)>>
  ELSE Carry(Sgn(m),
             RoundHalfEven(Abs(m) \div 2^(L - MantBits),
                           Abs(m) % 2^(L - MantBits), 2^(L - MantBits - 1)),
             e + (L - MantBits))

\* m * 2^e rounded to MantBits significant bits, ties to even
Norm(m, e) == IF m = 0 THEN Zero ELSE Fit(m, e, BitLen(Abs(m)))

FromInt(n) == Norm(n, 0)

FNeg(a) == <<-a[1], a[2]>>

\* hi + lo for hi[2] >= lo[2]: lo is below a quarter of an ulp of hi when the
\* exponents differ by MantBits + 2 or more
AddAligned(hi, lo) ==
  IF hi[2] - lo[2] >= MantBits + 2 THEN hi
  ELSE Norm(hi[1] * 2^(hi[2] - lo[2]) + lo[1], lo[2])

FAdd(a, b) ==
  IF a[1] = 0 THEN b
  ELSE IF b[1] = 0 THEN a
  ELSE IF a[2] >= b[2] THEN AddAligned(a, b) ELSE AddAligned(b, a)

FSub(a, b) == FAdd(a, FNeg(b))

FMul(a, b) == Norm(a[1] * b[1], a[2] + b[2])

\* sg * n / d * 2^e: the remainder is kept as a sticky bit below the quotient
DivScaled(n, d, sg, e) ==
  Norm(sg * (2 * (n \div d) + (IF n % d = 0 THEN 0 ELSE 1)), e - 1)

\* a / b for b # 0 (Python raises ZeroDivisionError for b = 0: the callers
\* test the divisor first)
FDiv(a, b) ==
  IF a[1] = 0 THEN Zero
  ELSE DivScaled(Abs(a[1]) * 2^(MantBits + 2), Abs(b[1]), Sgn(a[1]) * Sgn(b[1]),
                 a[2] - b[2] - (MantBits + 2))

FLt(a, b) == FSub(a, b)[1] < 0

FLe(a, b) == FSub(a, b)[1] <= 0

IsZero(a) == a[1] = 0

\* Python's max(a, b) and min(a, b): the first argument unless the second
\* is strictly greater (smaller)
FMax(a, b) == IF FLt(a, b) THEN b ELSE a

FMin(a, b) == IF FLt(b, a) THEN b ELSE a

\* a decimal literal n/d, e.g. 610.94 = Lit(61094, 100)
Lit(n, d) == FDiv(FromInt(n), FromInt(d))

\* int(a): truncation toward zero
FTrunc(a) ==
  IF a[2] >= 0 THEN a[1] * 2^(a[2])
  ELSE IF -a[2] > 30 THEN 0
  ELSE Sgn(a[1]) * (Abs(a[1]) \div 2^(-a[2]))

One == FromInt(1)

Half == Lit(1, 2)

Ln2 == Lit(693147, 1000000)

\* the Taylor series of e^r, summed until a term no longer changes the sum:
\* t is the term r^i/i!, acc the sum of the terms before it
RECURSIVE ExpSeries(_, _, _, _)
ExpTerm(r, t, i, acc, sum) ==
  IF sum = acc THEN acc
  ELSE ExpSeries(r, FDiv(FMul(t, r), FromInt(i + 1)), i + 1, sum)

ExpSeries(r, t, i, acc) == ExpTerm(r, t, i, acc, FAdd(acc, t))

\* e^x for x = kk*ln2 + r
Scale2(a, kk) == IF a[1] = 0 THEN Zero ELSE <<a[1], a[2] + kk>>

ExpReduced(x, kk) ==
  Scale2(ExpSeries(FSub(x, FMul(FromInt(kk), Ln2)), One, 0, Zero), kk)

\* math.exp(x); a double underflows to 0.0 below about -745
FExp(x) ==
  IF IsZero(x) THEN One
  ELSE IF FLt(x, FromInt(-745)) THEN Zero
  ELSE ExpReduced(x, FTrunc(FAdd(FDiv(x, Ln2),
                                 IF x[1] < 0 THEN FNeg(Half) ELSE Half)))

\* ------------------------------------------------------------------------
\* models.py: parameter records and their defaults
\* ------------------------------------------------------------------------
NoneVal == <<>>

V(geom) == FMul(FMul(geom.L, geom.W), geom.H)

A_floor(geom) == FMul(geom.L, geom.W)

AirProps == [rho |-> Lit(120, 100), cp |-> FromInt(1006)]

CouplingParams(LAI) ==
  [LAI |-> LAI, h_per_LAI |-> FromInt(10), k_lat |-> FromInt(2450000),
   gamma |-> FromInt(66), r_b |-> FromInt(200), k_tp |-> Lit(7, 10),
   rn_gain |-> Lit(70, 100)]

BaselinePlantParams == [C_can_areal |-> FromInt(30000)]

ActuationResolved(ACH, Q_heater_w, gas, helec, celec, velec) ==
  [ACH |-> ACH, Q_heater_w |-> Q_heater_w, heater_gas_m3_h |-> gas,
   heater_elec_w |-> helec, cooling_elec_w |-> celec, vents_elec_w |-> velec]

\* ------------------------------------------------------------------------
\* psychrometrics.py
\* ------------------------------------------------------------------------
CVAP == Lit(4615, 10)

es_magnus_tetens_pa(T_c) ==
  FMul(Lit(61094, 100),
       FExp(FDiv(FMul(Lit(17625, 1000), T_c), FAdd(Lit(24304, 100), T_c))))

T_kelvin(T_c) == FAdd(T_c, Lit(27315, 100))

\* abs_humidity_from_rh taking RH_pct for a fraction
abs_humidity_from_rh_fraction(T_c, RH_pct) ==
  FDiv(FMul(es_magnus_tetens_pa(T_c), RH_pct), FMul(T_kelvin(T_c), CVAP))

abs_humidity_from_rh(T_c, RH_pct) ==
  FDiv(FMul(es_magnus_tetens_pa(T_c), FDiv(RH_pct, FromInt(100))),
       FMul(T_kelvin(T_c), CVAP))

\* the value RH of rh_from_abs_humidity before it is clamped
rh_unclamped(T_c, v) ==
  FDiv(FMul(FMul(FMul(FromInt(100), v), T_kelvin(T_c)), CVAP),
       es_magnus_tetens_pa(T_c))

\* rh_from_abs_humidity without its clamp
rh_from_abs_humidity_raw(T_c, v) == rh_unclamped(T_c, v)

rh_from_abs_humidity(T_c, v) ==
  FMax(Zero, FMin(FromInt(100), rh_unclamped(T_c, v)))

vapor_pressure_from_abs_humidity(T_c, v) == FMul(FMul(v, T_kelvin(T_c)), CVAP)

\* ------------------------------------------------------------------------
\* actuators.py
\* ------------------------------------------------------------------------
ActuatorCommand(on, activity_pct, active_time_s) ==
  [on |-> on, activity_pct |-> activity_pct, active_time_s |-> active_time_s]

duty(cmd, elapsed_s) ==
  IF FLe(elapsed_s, Zero) THEN Zero
  ELSE FMax(Zero, FMin(One, FDiv(cmd.active_time_s, elapsed_s)))

\* activity01 without its clamp
activity01_raw(cmd) == FDiv(cmd.activity_pct, FromInt(100))

activity01(cmd) == FMax(Zero, FMin(One, FDiv(cmd.activity_pct, FromInt(100))))

ActuatorMapping ==
  [base_ach_vents |-> FromInt(3), base_ach_fans |-> FromInt(6),
   heater_max_w |-> FromInt(20000), heater_max_gas_m3_h |-> Lit(25, 10),
   heater_aux_elec_max_w |-> FromInt(300),
   cooling_fans_max_elec_w |-> FromInt(1500),
   vents_motor_max_elec_w |-> FromInt(0)]

effective(cmd, elapsed_s) ==
  FMul(FMul(IF cmd.on THEN One ELSE Zero, activity01(cmd)), duty(cmd, elapsed_s))

resolve_actuation(actuators, elapsed_s, mapping) ==
  LET v_eff == effective(actuators.vents, elapsed_s)
      f_eff == effective(actuators.fans, elapsed_s)
      h_eff == effective(actuators.heater, elapsed_s)
      ACH == FAdd(FMul(mapping.base_ach_vents, v_eff),
                  FMul(mapping.base_ach_fans, f_eff))
      Q_heater_w      == FMul(mapping.heater_max_w, h_eff)
      heater_gas_m3_h == FMul(mapping.heater_max_gas_m3_h, h_eff)
      heater_elec_w   == FMul(mapping.heater_aux_elec_max_w, h_eff)
      cooling_elec_w  == FMul(mapping.cooling_fans_max_elec_w, f_eff)
      vents_elec_w    == FMul(mapping.vents_motor_max_elec_w, v_eff)
  IN [ACH |-> ACH, Q_heater_w |-> Q_heater_w,
      dbg |-> [vents_effective_0to1 |-> v_eff, fans_effective_0to1 |-> f_eff,
               heater_effective_0to1 |-> h_eff, ACH |-> ACH,
               Q_heater_w |-> Q_heater_w],
      energy |-> [heater_gas_m3_h |-> heater_gas_m3_h,
                  heater_elec_w |-> heater_elec_w,
                  cooling_elec_w |-> cooling_elec_w,
                  vents_elec_w |-> vents_elec_w,
                  total_elec_w |->
                    FAdd(FAdd(heater_elec_w, cooling_elec_w), vents_elec_w)]]

\* ------------------------------------------------------------------------
\* simulator.py: build_trigger_string
\* ------------------------------------------------------------------------
RECURSIVE Join(_)
Join(flags) ==
  IF Len(flags) = 1 THEN flags[1]
  ELSE flags[1] \o "|" \o Join(Tail(flags))

\* build_trigger_string with the ventilation test ahead of the solar test
build_trigger_string_swapped(ACH, Q_heater_w, G_sun_w_m2, LAI, A_crop, Q_trans_W) ==
  LET flags ==
        (IF FLt(Zero, Q_heater_w) THEN <<"heater">> ELSE <<>>)
        \o (IF FLt(Zero, ACH) THEN <<"ventilation">> ELSE <<>>)
        \o (IF FLt(Zero, G_sun_w_m2) THEN <<"solar">> ELSE <<>>)
        \o (IF FLt(Zero, Q_trans_W) THEN <<"transpiration">> ELSE <<>>)
        \o (IF FLt(Zero, LAI) /\ FLt(Zero, A_crop)
            THEN <<"canopy_convection(h=10LAI)">> ELSE <<>>)
  IN IF flags # <<>> THEN Join(flags) ELSE "none"

build_trigger_string(ACH, Q_heater_w, G_sun_w_m2, LAI, A_crop, Q_trans_W) ==
  LET flags ==
        (IF FLt(Zero, Q_heater_w) THEN <<"heater">> ELSE <<>>)
        \o (IF FLt(Zero, G_sun_w_m2) THEN <<"solar">> ELSE <<>>)
        \o (IF FLt(Zero, ACH) THEN <<"ventilation">> ELSE <<>>)
        \o (IF FLt(Zero, Q_trans_W) THEN <<"transpiration">> ELSE <<>>)
        \o (IF FLt(Zero, LAI) /\ FLt(Zero, A_crop)
            THEN <<"canopy_convection(h=10LAI)">> ELSE <<>>)
  IN IF flags # <<>> THEN Join(flags) ELSE "none"

\* ------------------------------------------------------------------------
\* simulator.py: simulate, the locals set before the loop.
\* a is the record of simulate's arguments.
\* ------------------------------------------------------------------------
\* "crop_area_m2 or geom.A_floor": a crop area of 0 taken for a missing one
A_crop_or(a) ==
  IF a.crop_area_m2 # NoneVal /\ ~IsZero(a.crop_area_m2)
  THEN a.crop_area_m2 ELSE A_floor(a.geom)

A_crop(a) ==
  IF a.crop_area_m2 # NoneVal THEN a.crop_area_m2 ELSE A_floor(a.geom)

dx_airlayers(a) == a.geom.H

v_out(a) == abs_humidity_from_rh(a.outside.T_out_c, a.outside.RH_out_pct)

InitialState(a) ==
  [T_air |-> a.init.T_air_c,
   v_air |-> abs_humidity_from_rh(a.init.T_air_c, a.init.RH_air_pct),
   T_can |-> a.init.T_canopy_c]

Vdot(a) == FDiv(FMul(a.act.ACH, V(a.geom)), FromInt(3600))

mdot(a) == FMul(a.air.rho, Vdot(a))

\* ------------------------------------------------------------------------
\* simulator.py: simulate, one iteration of the loop.
\* s is the state [T_air, v_air, T_can] at the start of the iteration.
\* ------------------------------------------------------------------------
e_s_air(s) == es_magnus_tetens_pa(s.T_air)

e_air(s) == vapor_pressure_from_abs_humidity(s.T_air, s.v_air)

Rn(a) == FMul(a.coup.rn_gain, a.outside.G_sun_w_m2)

LAIeff(a) == FMax(Lit(1, 1000000), a.coup.LAI)

r_s(a, s) ==
  LET d == FSub(s.T_air, FromInt(20))
  IN FAdd(FromInt(82),
          FMul(FMul(FromInt(570),
                    FExp(FDiv(FNeg(FMul(a.coup.k_tp, Rn(a))), LAIeff(a)))),
               FAdd(One, FMul(Lit(23, 1000), FMul(d, d)))))

VEC(a, s) ==
  FDiv(FMul(FMul(FMul(FromInt(2), a.air.cp), a.air.rho), LAIeff(a)),
       FMul(FMul(a.coup.k_lat, a.coup.gamma), FAdd(a.coup.r_b, r_s(a, s))))

Q_trans_W(a, s) ==
  FMul(FMul(FMul(a.coup.k_lat, VEC(a, s)),
            FMax(Zero, FSub(e_s_air(s), e_air(s)))),
       A_crop(a))

h_can_air(a) == FMul(a.coup.h_per_LAI, LAIeff(a))

Q_conv_can_to_air_W(a, s) ==
  FMul(FMul(h_can_air(a), A_crop(a)), FSub(s.T_can, s.T_air))

Q_latent_vent_Wm2(a, s) ==
  FMul(FMul(FMul(FDiv(a.act.ACH, FromInt(3600)), dx_airlayers(a)),
            a.coup.k_lat),
       FSub(s.v_air, v_out(a)))

dAH(a, s) ==
  FDiv(FMul(a.dt_s, FSub(FDiv(Q_trans_W(a, s), A_crop(a)),
                         Q_latent_vent_Wm2(a, s))),
       FMul(a.coup.k_lat, dx_airlayers(a)))

\* the humidity update without max(0.0, .)
v_air_next_raw(a, s) == FAdd(s.v_air, dAH(a, s))

v_air_next(a, s) == FMax(Zero, FAdd(s.v_air, dAH(a, s)))

Q_env_W(a, s) == FMul(a.building.UA_w_k, FSub(a.outside.T_out_c, s.T_air))

Q_vent_sens_W(a, s) ==
  FMul(FMul(mdot(a), a.air.cp), FSub(a.outside.T_out_c, s.T_air))

Q_solar_air_W(a) ==
  FMul(FMul(a.building.tau_alpha_air, a.outside.G_sun_w_m2), A_floor(a.geom))

dTair_dt(a, s) ==
  FDiv(FAdd(FAdd(FAdd(FAdd(Q_env_W(a, s), Q_vent_sens_W(a, s)),
                      a.act.Q_heater_w),
                 Q_solar_air_W(a)),
            Q_conv_can_to_air_W(a, s)),
       FMul(FMul(a.air.rho, a.air.cp), V(a.geom)))

T_air_next(a, s) == FAdd(s.T_air, FMul(dTair_dt(a, s), a.dt_s))

Q_solar_can_W(a) ==
  FMul(FMul(a.building.tau_alpha_can, a.outside.G_sun_w_m2), A_floor(a.geom))

dTcan_dt(a, s) ==
  FDiv(FSub(FSub(Q_solar_can_W(a), Q_conv_can_to_air_W(a, s)), Q_trans_W(a, s)),
       FMul(a.plant.C_can_areal, A_crop(a)))

T_can_next(a, s) == FAdd(s.T_can, FMul(dTcan_dt(a, s), a.dt_s))

\* the state at the end of the iteration (lines 130, 138, 143)
\* the updates with every flux recomputed from the values already updated
AdvanceSequential(a, s) ==
  [T_air |-> T_air_next(a, s), v_air |-> v_air_next(a, s),
   T_can |-> T_can_next(a, [T_air |-> T_air_next(a, s),
                            v_air |-> v_air_next(a, s), T_can |-> s.T_can])]

Advance(a, s) ==
  [T_air |-> T_air_next(a, s), v_air |-> v_air_next(a, s),
   T_can |-> T_can_next(a, s)]

\* the divisions of one iteration whose divisor is zero: Python raises
\* ZeroDivisionError at the first of them
IterationRaises(a, s) ==
  \/ IsZero(A_crop(a))
  \/ IsZero(FMul(a.coup.k_lat, dx_airlayers(a)))
  \/ IsZero(FMul(FMul(a.air.rho, a.air.cp), V(a.geom)))
  \/ IsZero(FMul(a.plant.C_can_areal, A_crop(a)))
  \/ IsZero(es_magnus_tetens_pa(T_air_next(a, s)))

triggers(a, s) ==
  build_trigger_string(a.act.ACH, a.act.Q_heater_w, a.outside.G_sun_w_m2,
                       a.coup.LAI, A_crop(a), Q_trans_W(a, s))

dt_h(a) == FDiv(a.dt_s, FromInt(3600))

heater_gas_m3_step(a) == FMul(a.act.heater_gas_m3_h, dt_h(a))

heater_elec_kwh_step(a) == FMul(FDiv(a.act.heater_elec_w, FromInt(1000)), dt_h(a))

cooling_elec_kwh_step(a) == FMul(FDiv(a.act.cooling_elec_w, FromInt(1000)), dt_h(a))

vents_elec_kwh_step(a) == FMul(FDiv(a.act.vents_elec_w, FromInt(1000)), dt_h(a))

\* the totals with -= for +=
AccumulateDown(a, tot) ==
  [heater_gas_total_m3    |-> FSub(tot.heater_gas_total_m3, heater_gas_m3_step(a)),
   heater_elec_total_kwh  |-> FSub(tot.heater_elec_total_kwh, heater_elec_kwh_step(a)),
   cooling_elec_total_kwh |-> FSub(tot.cooling_elec_total_kwh, cooling_elec_kwh_step(a)),
   vents_elec_total_kwh   |-> FSub(tot.vents_elec_total_kwh, vents_elec_kwh_step(a))]

\* the running totals after this iteration's += (lines 176-179)
Accumulate(a, tot) ==
  [heater_gas_total_m3    |-> FAdd(tot.heater_gas_total_m3, heater_gas_m3_step(a)),
   heater_elec_total_kwh  |-> FAdd(tot.heater_elec_total_kwh, heater_elec_kwh_step(a)),
   cooling_elec_total_kwh |-> FAdd(tot.cooling_elec_total_kwh, cooling_elec_kwh_step(a)),
   vents_elec_total_kwh   |-> FAdd(tot.vents_elec_total_kwh, vents_elec_kwh_step(a))]

\* the row built from the state the iteration started from
RowBeforeUpdate(a, kk, pre, post, tot) ==
  [t_min |-> FDiv(FMul(FromInt(kk), a.dt_s), FromInt(60)),
   Tout_C |-> a.outside.T_out_c,
   Tair_C |-> pre.T_air,
   RH_air_pct |-> rh_from_abs_humidity(pre.T_air, pre.v_air),
   Triggers |-> triggers(a, pre),
   airflow_m3_s |-> Vdot(a),
   ACH_1_h |-> a.act.ACH,
   heater_thermal_w |-> a.act.Q_heater_w,
   heater_gas_m3_h_rate |-> a.act.heater_gas_m3_h,
   heater_elec_w_rate |-> a.act.heater_elec_w,
   cooling_elec_w_rate |-> a.act.cooling_elec_w,
   vents_elec_w_rate |-> a.act.vents_elec_w,
   heater_gas_m3_step |-> heater_gas_m3_step(a),
   heater_elec_kwh_step |-> heater_elec_kwh_step(a),
   cooling_elec_kwh_step |-> cooling_elec_kwh_step(a),
   vents_elec_kwh_step |-> vents_elec_kwh_step(a),
   heater_gas_m3_cum |-> tot.heater_gas_total_m3,
   heater_elec_kwh_cum |-> tot.heater_elec_total_kwh,
   cooling_elec_kwh_cum |-> tot.cooling_elec_total_kwh,
   vents_elec_kwh_cum |-> tot.vents_elec_total_kwh,
   cooling_total_elec_kwh_cum |->
     FAdd(tot.cooling_elec_total_kwh, tot.vents_elec_total_kwh),
   total_elec_kwh_cum |->
     FAdd(FAdd(tot.heater_elec_total_kwh, tot.cooling_elec_total_kwh),
          tot.vents_elec_total_kwh)]

\* the row built before this iteration's += : its cumulative fields lack the
\* step
RowBeforeAccumulate(a, kk, pre, post, tot) ==
  [t_min |-> FDiv(FMul(FromInt(kk), a.dt_s), FromInt(60)),
   Tout_C |-> a.outside.T_out_c,
   Tair_C |-> post.T_air,
   RH_air_pct |-> rh_from_abs_humidity(post.T_air, post.v_air),
   Triggers |-> triggers(a, pre),
   airflow_m3_s |-> Vdot(a),
   ACH_1_h |-> a.act.ACH,
   heater_thermal_w |-> a.act.Q_heater_w,
   heater_gas_m3_h_rate |-> a.act.heater_gas_m3_h,
   heater_elec_w_rate |-> a.act.heater_elec_w,
   cooling_elec_w_rate |-> a.act.cooling_elec_w,
   vents_elec_w_rate |-> a.act.vents_elec_w,
   heater_gas_m3_step |-> heater_gas_m3_step(a),
   heater_elec_kwh_step |-> heater_elec_kwh_step(a),
   cooling_elec_kwh_step |-> cooling_elec_kwh_step(a),
   vents_elec_kwh_step |-> vents_elec_kwh_step(a),
   heater_gas_m3_cum |-> FSub(tot.heater_gas_total_m3, heater_gas_m3_step(a)),
   heater_elec_kwh_cum |->
     FSub(tot.heater_elec_total_kwh, heater_elec_kwh_step(a)),
   cooling_elec_kwh_cum |->
     FSub(tot.cooling_elec_total_kwh, cooling_elec_kwh_step(a)),
   vents_elec_kwh_cum |->
     FSub(tot.vents_elec_total_kwh, vents_elec_kwh_step(a)),
   cooling_total_elec_kwh_cum |->
     FAdd(tot.cooling_elec_total_kwh, tot.vents_elec_total_kwh),
   total_elec_kwh_cum |->
     FAdd(FAdd(tot.heater_elec_total_kwh, tot.cooling_elec_total_kwh),
          tot.vents_elec_total_kwh)]

\* the row appended by iteration kk: pre is the state the iteration started
\* from, post the state it advanced to, tot the totals after its +=
Row(a, kk, pre, post, tot) ==
  [t_min |-> FDiv(FMul(FromInt(kk), a.dt_s), FromInt(60)),
   Tout_C |-> a.outside.T_out_c,
   Tair_C |-> post.T_air,
   RH_air_pct |-> rh_from_abs_humidity(post.T_air, post.v_air),
   Triggers |-> triggers(a, pre),
   airflow_m3_s |-> Vdot(a),
   ACH_1_h |-> a.act.ACH,
   heater_thermal_w |-> a.act.Q_heater_w,
   heater_gas_m3_h_rate |-> a.act.heater_gas_m3_h,
   heater_elec_w_rate |-> a.act.heater_elec_w,
   cooling_elec_w_rate |-> a.act.cooling_elec_w,
   vents_elec_w_rate |-> a.act.vents_elec_w,
   heater_gas_m3_step |-> heater_gas_m3_step(a),
   heater_elec_kwh_step |-> heater_elec_kwh_step(a),
   cooling_elec_kwh_step |-> cooling_elec_kwh_step(a),
   vents_elec_kwh_step |-> vents_elec_kwh_step(a),
   heater_gas_m3_cum |-> tot.heater_gas_total_m3,
   heater_elec_kwh_cum |-> tot.heater_elec_total_kwh,
   cooling_elec_kwh_cum |-> tot.cooling_elec_total_kwh,
   vents_elec_kwh_cum |-> tot.vents_elec_total_kwh,
   cooling_total_elec_kwh_cum |->
     FAdd(tot.cooling_elec_total_kwh, tot.vents_elec_total_kwh),
   total_elec_kwh_cum |->
     FAdd(FAdd(tot.heater_elec_total_kwh, tot.cooling_elec_total_kwh),
          tot.vents_elec_total_kwh)]

\* Python's sum(series): a left fold of + from 0
RECURSIVE FSum(_)
FSum(series) ==
  IF series = <<>> THEN Zero
  ELSE FAdd(FSum(SubSeq(series, 1, Len(series) - 1)), series[Len(series)])

Last(series) == series[Len(series)]

Mean(series) ==
  IF series # <<>> THEN FDiv(FSum(series), FromInt(Len(series))) ELSE Zero

\* the dictionary with its final values and totals read from the first row
SummaryOfFirstRow(a, st, rh, tot, rws, airflow, ach) ==
  [rows |-> rws,
   Tout_C |-> a.outside.T_out_c,
   Tin_final_C |-> rws[1].Tair_C,
   RHin_final_pct |-> rws[1].RH_air_pct,
   airflow_final_m3_s |-> IF airflow # <<>> THEN Last(airflow) ELSE Zero,
   airflow_avg_m3_s |-> Mean(airflow),
   ach_final_1_h |-> IF ach # <<>> THEN Last(ach) ELSE Zero,
   ach_avg_1_h |-> Mean(ach),
   heater_gas_total_m3 |-> rws[1].heater_gas_m3_cum,
   heater_elec_total_kwh |-> rws[1].heater_elec_kwh_cum,
   cooling_elec_total_kwh |-> rws[1].cooling_elec_kwh_cum,
   vents_elec_total_kwh |-> rws[1].vents_elec_kwh_cum,
   total_elec_kwh |-> rws[1].total_elec_kwh_cum]

\* the dictionary simulate returns (lines 213-233)
Summary(a, st, rh, tot, rws, airflow, ach) ==
  [rows |-> rws,
   Tout_C |-> a.outside.T_out_c,
   Tin_final_C |-> st.T_air,
   RHin_final_pct |-> rh,
   airflow_final_m3_s |-> IF airflow # <<>> THEN Last(airflow) ELSE Zero,
   airflow_avg_m3_s |-> Mean(airflow),
   ach_final_1_h |-> IF ach # <<>> THEN Last(ach) ELSE Zero,
   ach_avg_1_h |-> Mean(ach),
   heater_gas_total_m3 |-> tot.heater_gas_total_m3,
   heater_elec_total_kwh |-> tot.heater_elec_total_kwh,
   cooling_elec_total_kwh |-> tot.cooling_elec_total_kwh,
   vents_elec_total_kwh |-> tot.vents_elec_total_kwh,
   total_elec_kwh |->
     FAdd(FAdd(tot.heater_elec_total_kwh, tot.cooling_elec_total_kwh),
          tot.vents_elec_total_kwh)]

\* ------------------------------------------------------------------------
\* __init__.py: estimate_environment, up to its call of simulate
\* ------------------------------------------------------------------------
ActuatorSet(vents, fans, heater) ==
  [vents |-> vents, fans |-> fans, heater |-> heater]

\* the ActuationResolved that estimate_environment hands to simulate
ActOf(r) ==
  ActuationResolved(r.ACH, r.Q_heater_w, r.energy.heater_gas_m3_h,
                    r.energy.heater_elec_w, r.energy.cooling_elec_w,
                    r.energy.vents_elec_w)

ResolvedAct(actuators, elapsed_s, mapping) ==
  ActOf(resolve_actuation(actuators, elapsed_s, mapping))

\* ------------------------------------------------------------------------
\* The calls the model makes
\* ------------------------------------------------------------------------
Geom == [L |-> FromInt(20), W |-> FromInt(10), H |-> FromInt(4)]

Building ==
  [UA_w_k |-> FromInt(250), tau_alpha_air |-> Lit(25, 100),
   tau_alpha_can |-> Lit(20, 100)]

\* outdoor weather, initial condition and leaf-area index
Climate(RH_out, G_sun, RH_air, LAI) ==
  [outside |-> [T_out_c |-> FromInt(-10), RH_out_pct |-> FromInt(RH_out),
                G_sun_w_m2 |-> FromInt(G_sun)],
   init |-> [T_air_c |-> FromInt(15), RH_air_pct |-> FromInt(RH_air),
             T_canopy_c |-> FromInt(15)],
   LAI |-> FromInt(LAI)]

Climates ==
  {Climate(70, 150, 60, 2), Climate(0, 0, 60, 0), Climate(70, 0, 100, 0),
   Climate(0, 0, 60, 2)}

\* <<dt_s, elapsed_s>>: no step, whole steps, a broken last step, dt_s above
\* elapsed_s
Timings == {<<60, 0>>, <<60, 120>>, <<60, 150>>, <<900, 150>>}

\* <<dt_s, elapsed_s>> with the invalid dt_s <= 0
BadTimings == {<<0, 120>>, <<-60, 0>>, <<-60, 120>>}

ElapsedValues == {0, 150}

CropAreas == {NoneVal, Zero}

Actuations ==
  {ActuationResolved(Zero, Zero, Zero, Zero, Zero, Zero),
   ActuationResolved(FromInt(2), FromInt(10000), Lit(125, 100), FromInt(150),
                     FromInt(750), Zero),
   ActuationResolved(FromInt(9), Zero, Lit(-5, 10), Zero, FromInt(1500),
                     FromInt(80))}

Commands ==
  {ActuatorCommand(FALSE, FromInt(100), FromInt(150)),
   ActuatorCommand(TRUE, FromInt(50), FromInt(75)),
   ActuatorCommand(TRUE, FromInt(150), FromInt(300)),
   ActuatorCommand(TRUE, FromInt(-20), FromInt(60))}

Args(cl, act, crop, dt, el) ==
  [geom |-> Geom, outside |-> cl.outside, init |-> cl.init,
   building |-> Building, act |-> act, coup |-> CouplingParams(cl.LAI),
   plant |-> BaselinePlantParams, air |-> AirProps, crop_area_m2 |-> crop,
   dt_s |-> FromInt(dt), elapsed_s |-> FromInt(el)]

\* saturated air heated with the vents closed
HeatingCall ==
  Args(Climate(70, 0, 100, 2),
       ActuationResolved(Zero, FromInt(20000), Lit(25, 10), FromInt(300), Zero,
                         Zero),
       NoneVal, 60, 300)

SimulateCalls ==
  {Args(cl, act, crop, tm[1], tm[2]) :
     cl \in Climates, act \in Actuations, crop \in CropAreas, tm \in Timings}
  \cup {Args(Climate(70, 150, 60, 2), act, NoneVal, tm[1], tm[2]) :
          act \in Actuations, tm \in BadTimings}
  \cup {HeatingCall}

ActuatorSets ==
  {ActuatorSet(vents, fans, heater) :
     vents \in Commands, fans \in Commands, heater \in Commands}

\* the calls of estimate_environment, each with the arguments it hands to
\* simulate
EstimateCalls ==
  {[actuators |-> set,
    args |-> Args(Climate(70, 150, 60, 2),
                  ResolvedAct(set, FromInt(el), ActuatorMapping),
                  NoneVal, 60, el)] :
     set \in ActuatorSets, el \in ElapsedValues}

\* ------------------------------------------------------------------------
\* State
\* ------------------------------------------------------------------------
VARIABLES
  pc,          \* "idle", "loop" (inside simulate), "done" or "raised"
  api,         \* the entry point called: "simulate" or "estimate_environment"
  actuators,   \* <<the ActuatorSet of estimate_environment>>, else <<>>
  args,        \* the arguments of the running simulate
  steps, k,    \* the step count and the loop index
  T_air, v_air, T_can,      \* the simulation state
  RH_air,      \* NoneVal while unbound
  totals,      \* the four energy accumulators
  rows, airflow_series_m3_s, ach_series,
  result,      \* <<the dictionary returned>>, <<>> while there is none
  exc,         \* the exception that ended the call, "" while there is none
  calls,       \* the number of calls made so far
  psy          \* <<[T_c, v, RH]>>: a direct call of rh_from_abs_humidity

vars ==
  <<pc, api, actuators, args, steps, k, T_air, v_air, T_can, RH_air, totals,
    rows, airflow_series_m3_s, ach_series, result, exc, calls, psy>>

State == [T_air |-> T_air, v_air |-> v_air, T_can |-> T_can]

Init ==
  /\ pc = "idle"
  /\ api = "simulate"
  /\ actuators = <<>>
  /\ args = Args(Climate(70, 150, 60, 2),
                 ActuationResolved(Zero, Zero, Zero, Zero, Zero, Zero),
                 NoneVal, 60, 0)
  /\ steps = 0
  /\ k = 0
  /\ T_air = Zero
  /\ v_air = Zero
  /\ T_can = Zero
  /\ RH_air = NoneVal
  /\ totals = [heater_gas_total_m3 |-> Zero, heater_elec_total_kwh |-> Zero,
               cooling_elec_total_kwh |-> Zero, vents_elec_total_kwh |-> Zero]
  /\ rows = <<>>
  /\ airflow_series_m3_s = <<>>
  /\ ach_series = <<>>
  /\ result = <<>>
  /\ exc = ""
  /\ calls = 0
  /\ psy = <<>>

\* the accumulators left as the previous call left them
TotalsCarried == totals

\* the energy accumulators before the loop, lines 91-94
ZeroTotals ==
  [heater_gas_total_m3 |-> Zero, heater_elec_total_kwh |-> Zero,
   cooling_elec_total_kwh |-> Zero, vents_elec_total_kwh |-> Zero]

\* round(elapsed_s / dt_s) for int(elapsed_s / dt_s)
StepCountRounded(a) ==
  FTrunc(FAdd(FDiv(a.elapsed_s, a.dt_s),
              IF FLt(FDiv(a.elapsed_s, a.dt_s), Zero) THEN FNeg(Half) ELSE Half))

\* int(elapsed_s / dt_s), line 89
StepCount(a) == FTrunc(FDiv(a.elapsed_s, a.dt_s))

\* simulate called with arguments a: lines 73-99.  A dt_s of zero raises
\* ZeroDivisionError at line 89.
Enter(a) ==
  /\ args' = a
  /\ \E s0 \in {InitialState(a)} :
       T_air' = s0.T_air /\ v_air' = s0.v_air /\ T_can' = s0.T_can
  /\ RH_air' = NoneVal
  /\ totals' = ZeroTotals
  /\ rows' = <<>>
  /\ airflow_series_m3_s' = <<>>
  /\ ach_series' = <<>>
  /\ result' = <<>>
  /\ k' = 0
  /\ calls' = calls + 1
  /\ UNCHANGED psy
  /\ IF IsZero(a.dt_s)
     THEN pc' = "raised" /\ exc' = "ZeroDivisionError" /\ steps' = 0
     ELSE pc' = "loop" /\ exc' = "" /\ steps' = StepCount(a)

CallSimulate ==
  /\ pc \in {"idle", "done", "raised"}
  /\ calls < MaxCalls
  /\ \E a \in SimulateCalls :
       /\ api' = "simulate"
       /\ actuators' = <<>>
       /\ Enter(a)

\* estimate_environment called: the actuation is resolved and simulate runs
\* with it
CallEstimate ==
  /\ pc \in {"idle", "done", "raised"}
  /\ calls < MaxCalls
  /\ \E c \in EstimateCalls :
       /\ api' = "estimate_environment"
       /\ actuators' = <<c.actuators>>
       /\ Enter(c.args)

\* one iteration of the loop, lines 101-211
Iterate ==
  /\ pc = "loop"
  /\ k <= steps
  /\ IF IterationRaises(args, State)
     THEN /\ pc' = "raised"
          /\ exc' = "ZeroDivisionError"
          /\ UNCHANGED <<api, actuators, args, steps, k, T_air, v_air, T_can,
                         RH_air, totals, rows, airflow_series_m3_s,
                         ach_series, result, calls, psy>>
     ELSE \E post \in {Advance(args, State)},
             tot \in {Accumulate(args, totals)} :
             /\ T_air' = post.T_air
             /\ v_air' = post.v_air
             /\ T_can' = post.T_can
             /\ RH_air' = rh_from_abs_humidity(post.T_air, post.v_air)
             /\ airflow_series_m3_s' = Append(airflow_series_m3_s, Vdot(args))
             /\ ach_series' = Append(ach_series, args.act.ACH)
             /\ totals' = tot
             /\ rows' = Append(rows, Row(args, k, State, post, tot))
             /\ k' = k + 1
             /\ UNCHANGED <<pc, api, actuators, args, steps, result, exc,
                            calls, psy>>

\* the returned dictionary with the time series cut down to its last row
ReturnedFinalOnly ==
  LET out == Summary(args, State, RH_air, totals,
                     IF rows = <<>> THEN rows ELSE <<rows[Len(rows)]>>,
                     airflow_series_m3_s, ach_series)
  IN IF api = "estimate_environment"
     THEN [actuator_mapping_debug |->
             resolve_actuation(actuators[1], args.elapsed_s, ActuatorMapping).dbg]
          @@ out
     ELSE out

\* what the entry point returns: simulate's dictionary, to which
\* estimate_environment adds the key actuator_mapping_debug
Returned ==
  LET out == Summary(args, State, RH_air, totals, rows, airflow_series_m3_s,
                     ach_series)
  IN IF api = "estimate_environment"
     THEN [actuator_mapping_debug |->
             resolve_actuation(actuators[1], args.elapsed_s, ActuatorMapping).dbg]
          @@ out
     ELSE out

\* the loop is over, lines 213-233.  RH_air is unbound when no iteration ran:
\* building the dictionary raises UnboundLocalError.
Return ==
  /\ pc = "loop"
  /\ k > steps
  /\ IF RH_air = NoneVal
     THEN pc' = "raised" /\ exc' = "UnboundLocalError" /\ result' = <<>>
     ELSE pc' = "done" /\ exc' = "" /\ result' = <<Returned>>
  /\ UNCHANGED <<api, actuators, args, steps, k, T_air, v_air, T_can, RH_air,
                 totals, rows, airflow_series_m3_s, ach_series, calls, psy>>

\* rh_from_abs_humidity called on its own
ConvertTemps == {FromInt(-30), FromInt(15), FromInt(50)}

ConvertHumidities == {Lit(-5, 1000), Zero, Lit(77, 10000), Lit(1, 10)}

CallRhFromAbs ==
  /\ pc = "idle"
  /\ \E T_c \in ConvertTemps, v \in ConvertHumidities :
       psy' = <<[T_c |-> T_c, v |-> v, RH |-> rh_from_abs_humidity(T_c, v)]>>
  /\ pc' = "converted"
  /\ UNCHANGED <<api, actuators, args, steps, k, T_air, v_air, T_can, RH_air,
                 totals, rows, airflow_series_m3_s, ach_series, result, exc,
                 calls>>

\* abs_humidity_from_rh called on its own and its result handed to
\* rh_from_abs_humidity
RoundTripTemps == {FromInt(-30), FromInt(0), FromInt(15), FromInt(50)}

RoundTripHumidities ==
  {Zero, FromInt(1), FromInt(33), Lit(455, 10), FromInt(60), FromInt(99),
   FromInt(100)}

CallRoundTrip ==
  /\ pc = "idle"
  /\ \E T_c \in RoundTripTemps, RH_pct \in RoundTripHumidities :
       \E v \in {abs_humidity_from_rh(T_c, RH_pct)} :
          psy' = <<[T_c |-> T_c, RH_pct |-> RH_pct, v |-> v,
                    RH |-> rh_from_abs_humidity(T_c, v)]>>
  /\ pc' = "roundtrip"
  /\ UNCHANGED <<api, actuators, args, steps, k, T_air, v_air, T_can, RH_air,
                 totals, rows, airflow_series_m3_s, ach_series, result, exc,
                 calls>>

Next ==
  \/ CallSimulate \/ CallEstimate \/ Iterate \/ Return
  \/ CallRhFromAbs \/ CallRoundTrip

Spec == Init /\ [][Next]_vars

-----------------------------------------------------------------------------
\* Properties

\* dt_s > 0 and elapsed_s >= 0
ValidTiming(a) == FLt(Zero, a.dt_s) /\ FLe(Zero, a.elapsed_s)

Hundred == FromInt(100)

InPercentRange(x) == FLe(Zero, x) /\ FLe(x, Hundred)

\* the state n loop iterations after the start of a call with arguments a
RECURSIVE StateAfter(_, _)
StateAfter(a, n) ==
  IF n = 0 THEN InitialState(a) ELSE Advance(a, StateAfter(a, n - 1))

\* C1: when dt_s > 0 and elapsed_s >= 0, a completed call returns exactly
\* floor(elapsed_s / dt_s) + 1 rows.
RowCount ==
  (pc = "done" /\ ValidTiming(args)) =>
     Len(result[1].rows) = (FTrunc(args.elapsed_s) \div FTrunc(args.dt_s)) + 1

\* a call with elapsed_s < dt_s has completed with its single row
RowCountReached ==
  /\ pc = "done"
  /\ ValidTiming(args)
  /\ FLt(args.elapsed_s, args.dt_s)
  /\ FLt(Zero, args.elapsed_s)
  /\ Len(result[1].rows) = 1

\* C2: the i-th row carries the time at which its step began, (i-1)*dt_s/60,
\* and the air temperature and relative humidity of the state after that
\* step's update.
RowIsPostUpdate ==
  \A i \in 1..Len(rows) :
     /\ rows[i].t_min = FDiv(FMul(FromInt(i - 1), args.dt_s), FromInt(60))
     /\ \E post \in {StateAfter(args, i)} :
           /\ rows[i].Tair_C = post.T_air
           /\ rows[i].RH_air_pct = rh_from_abs_humidity(post.T_air, post.v_air)

\* a first row at time 0 whose air temperature is no longer the initial one
RowIsPostUpdateReached ==
  /\ Len(rows) >= 2
  /\ IsZero(rows[1].t_min)
  /\ rows[1].Tair_C # args.init.T_air_c
  /\ rows[2].Tair_C # rows[1].Tair_C

\* no ventilation, no heating, no sun and no canopy
AllOff(a) ==
  /\ IsZero(a.act.ACH)
  /\ IsZero(a.act.Q_heater_w)
  /\ IsZero(a.outside.G_sun_w_m2)
  /\ IsZero(a.coup.LAI)

\* C3: with ACH = 0, Q_heater_w = 0, an outside irradiance of 0 and LAI = 0
\* every row's trigger string is "none".

TriggersNoneWhenAllOff ==
  AllOff(args) => \A i \in 1..Len(rows) : rows[i].Triggers = "none"

\* C4: after every step's update the absolute humidity is >= 0.
HumidityNonNegative == k > 0 => FLe(Zero, v_air)

\* the first step took more vapour out than the air held: the raw update is
\* negative and the stored humidity is 0
HumidityClampReached ==
  /\ pc = "loop"
  /\ k = 1
  /\ IsZero(v_air)
  /\ FLt(FAdd(InitialState(args).v_air, dAH(args, InitialState(args))), Zero)

\* C5: every relative humidity the conversion produces, in a row, in the
\* final summary or on a direct call, lies in [0, 100]; a raw value outside
\* the range is reported as the nearer end.
RelativeHumidityBounded ==
  /\ \A i \in 1..Len(rows) : InPercentRange(rows[i].RH_air_pct)
  /\ pc = "done" => InPercentRange(result[1].RHin_final_pct)
  /\ psy # <<>> =>
       /\ InPercentRange(psy[1].RH)
       /\ FLt(rh_unclamped(psy[1].T_c, psy[1].v), Zero) => IsZero(psy[1].RH)
       /\ FLt(Hundred, rh_unclamped(psy[1].T_c, psy[1].v)) =>
            psy[1].RH = Hundred

\* a row reports 100 for a state whose raw relative humidity exceeds 100
RelativeHumidityClampReached ==
  /\ rows # <<>>
  /\ rows[Len(rows)].RH_air_pct = Hundred
  /\ FLt(Hundred, rh_unclamped(T_air, v_air))

\* C6: with a nonnegative consumption rate and dt_s > 0, the matching
\* cumulative column never decreases from one row to the next.
CumulativeMonotone ==
  FLt(Zero, args.dt_s) =>
    \A i \in 1..(Len(rows) - 1) :
       /\ FLe(Zero, args.act.heater_gas_m3_h) =>
            FLe(rows[i].heater_gas_m3_cum, rows[i + 1].heater_gas_m3_cum)
       /\ FLe(Zero, args.act.heater_elec_w) =>
            FLe(rows[i].heater_elec_kwh_cum, rows[i + 1].heater_elec_kwh_cum)
       /\ FLe(Zero, args.act.cooling_elec_w) =>
            FLe(rows[i].cooling_elec_kwh_cum, rows[i + 1].cooling_elec_kwh_cum)
       /\ FLe(Zero, args.act.vents_elec_w) =>
            FLe(rows[i].vents_elec_kwh_cum, rows[i + 1].vents_elec_kwh_cum)

\* two rows of a call with a positive gas rate, the second strictly above
\* the first
CumulativeMonotoneReached ==
  /\ Len(rows) >= 2
  /\ FLt(Zero, args.dt_s)
  /\ FLt(Zero, args.act.heater_gas_m3_h)
  /\ FLt(rows[1].heater_gas_m3_cum, rows[2].heater_gas_m3_cum)
  /\ FLt(Zero, rows[1].heater_gas_m3_cum)

\* C7: the airflow and the air-change rate are the same in every row, and
\* so the final and average values of the summary are equal.
FinalEqualsAverage ==
  /\ \A i \in 1..Len(rows) :
        rows[i].airflow_m3_s = Vdot(args) /\ rows[i].ACH_1_h = args.act.ACH
  /\ pc = "done" =>
       /\ result[1].airflow_final_m3_s = result[1].airflow_avg_m3_s
       /\ result[1].ach_final_1_h = result[1].ach_avg_1_h

\* C8: with crop_area_m2 = 0 and LAI > 0 the call fails with a division by
\* zero in its first step and produces no row and no result; with
\* crop_area_m2 omitted the crop area is the floor area and the division by
\* zero does not occur.
ZeroCropArea ==
  ValidTiming(args) =>
    /\ (args.crop_area_m2 = Zero /\ FLt(Zero, args.coup.LAI)) =>
         /\ pc \in {"loop", "raised"}
         /\ k = 0
         /\ rows = <<>>
         /\ result = <<>>
         /\ pc = "raised" => exc = "ZeroDivisionError"
         /\ pc = "loop" => IterationRaises(args, State)
    /\ args.crop_area_m2 = NoneVal =>
         /\ pc # "raised"
         /\ A_crop(args) = A_floor(args.geom)

\* the call with crop_area_m2 = 0 has failed
ZeroCropAreaReached ==
  /\ pc = "raised"
  /\ exc = "ZeroDivisionError"
  /\ ValidTiming(args)
  /\ args.crop_area_m2 = Zero
  /\ FLt(Zero, args.coup.LAI)
  /\ rows = <<>>

\* the totals n iterations into a call that starts from zero
RECURSIVE TotalsAfter(_, _)
TotalsAfter(a, n) ==
  IF n = 0
  THEN [heater_gas_total_m3 |-> Zero, heater_elec_total_kwh |-> Zero,
        cooling_elec_total_kwh |-> Zero, vents_elec_total_kwh |-> Zero]
  ELSE Accumulate(a, TotalsAfter(a, n - 1))

\* what a call with arguments a returns when nothing but a determines it
FreshRun(a, n) ==
  Summary(a, StateAfter(a, n),
          rh_from_abs_humidity(StateAfter(a, n).T_air, StateAfter(a, n).v_air),
          TotalsAfter(a, n),
          [i \in 1..n |-> Row(a, i - 1, StateAfter(a, i - 1), StateAfter(a, i),
                              TotalsAfter(a, i))],
          [i \in 1..n |-> Vdot(a)],
          [i \in 1..n |-> a.act.ACH])

\* C9: the result of a call is a function of its arguments alone: whatever
\* was called before, it is the result of a run that starts from the
\* initial conditions with zero totals and no rows.
ResultDependsOnArgumentsOnly ==
  pc = "done" =>
    \E fresh \in {FreshRun(args, steps + 1)} :
       \A key \in DOMAIN fresh : result[1][key] = fresh[key]

\* a second call has completed after a first one that consumed energy
SecondCallReached ==
  /\ pc = "done"
  /\ calls = 2
  /\ Len(result[1].rows) >= 2
  /\ FLt(Zero, result[1].heater_gas_total_m3)

\* the fraction of full effect of one command: 0 when off, else
\* clip(activity_pct/100) * clip(active_time_s/elapsed_s), 0 for elapsed_s <= 0
Clip01(x) == IF FLt(x, Zero) THEN Zero ELSE IF FLt(One, x) THEN One ELSE x

Fraction(cmd, elapsed_s) ==
  IF ~cmd.on \/ FLe(elapsed_s, Zero) THEN Zero
  ELSE FMul(Clip01(FDiv(cmd.activity_pct, Hundred)),
            Clip01(FDiv(cmd.active_time_s, elapsed_s)))

\* C10: each actuator's effect is its maximum times a fraction in [0, 1]
\* that is 0 when the actuator is off: the air-change rate is
\* 3.0 * vents + 6.0 * fans, and heater power, gas and electricity rates are
\* the mapping's maxima scaled by their fraction, so none exceeds its
\* maximum.
ActuationWithinMaxima ==
  api = "estimate_environment" =>
    /\ \A name \in {"vents", "fans", "heater"} :
          /\ effective(actuators[1][name], args.elapsed_s) =
               Fraction(actuators[1][name], args.elapsed_s)
          /\ FLe(Zero, effective(actuators[1][name], args.elapsed_s))
          /\ FLe(effective(actuators[1][name], args.elapsed_s), One)
          /\ ~actuators[1][name].on =>
               IsZero(effective(actuators[1][name], args.elapsed_s))
    /\ args.act.ACH =
         FAdd(FMul(ActuatorMapping.base_ach_vents,
                   Fraction(actuators[1].vents, args.elapsed_s)),
              FMul(ActuatorMapping.base_ach_fans,
                   Fraction(actuators[1].fans, args.elapsed_s)))
    /\ args.act.Q_heater_w =
         FMul(ActuatorMapping.heater_max_w,
              Fraction(actuators[1].heater, args.elapsed_s))
    /\ FLe(Zero, args.act.ACH)
    /\ FLe(args.act.ACH, FAdd(ActuatorMapping.base_ach_vents,
                              ActuatorMapping.base_ach_fans))
    /\ FLe(Zero, args.act.Q_heater_w)
    /\ FLe(args.act.Q_heater_w, ActuatorMapping.heater_max_w)
    /\ FLe(args.act.heater_gas_m3_h, ActuatorMapping.heater_max_gas_m3_h)
    /\ FLe(args.act.heater_elec_w, ActuatorMapping.heater_aux_elec_max_w)
    /\ FLe(args.act.cooling_elec_w, ActuatorMapping.cooling_fans_max_elec_w)
    /\ FLe(args.act.vents_elec_w, ActuatorMapping.vents_motor_max_elec_w)

\* a heater commanded at 150 % for twice the elapsed time runs at exactly
\* its maximum
ActuationSaturatedReached ==
  /\ api = "estimate_environment"
  /\ actuators[1].heater.on
  /\ FLt(Hundred, actuators[1].heater.activity_pct)
  /\ FLt(args.elapsed_s, actuators[1].heater.active_time_s)
  /\ FLt(Zero, args.elapsed_s)
  /\ args.act.Q_heater_w = ActuatorMapping.heater_max_w

\* |x|
FAbs(x) == IF x[1] < 0 THEN FNeg(x) ELSE x

\* the rounding error eight float operations can accumulate on a value x of
\* MantBits significant bits: 9 * x * 2^-MantBits
RoundingAllowance(x) == FMul(x, Norm(9, -MantBits))

\* C11: converting a relative humidity in [0, 100] to absolute humidity and
\* back at the same temperature returns it up to the rounding of the eight
\* float operations involved (relative error 9 * 2^-MantBits, far below 1e-6
\* at 53 bits), and the clamp leaves the in-range value as it is.
HumidityRoundTrip ==
  pc = "roundtrip" =>
    /\ FLe(FAbs(FSub(psy[1].RH, psy[1].RH_pct)),
           RoundingAllowance(psy[1].RH_pct))
    /\ InPercentRange(rh_unclamped(psy[1].T_c, psy[1].v)) =>
         psy[1].RH = rh_unclamped(psy[1].T_c, psy[1].v)

\* a round trip of a humidity strictly inside the range that comes back
\* rounded, not bit for bit
HumidityRoundTripReached ==
  /\ pc = "roundtrip"
  /\ psy[1].T_c = FromInt(-30)
  /\ FLt(Zero, psy[1].RH_pct)
  /\ FLt(psy[1].RH_pct, Hundred)
  /\ FLt(Zero, psy[1].v)
  /\ psy[1].RH # psy[1].RH_pct

\* C12: a call with dt_s <= 0 executes no iteration, records no row and
\* returns no result.
InvalidStepFails ==
  (pc \in {"loop", "done", "raised"} /\ FLe(args.dt_s, Zero)) =>
     /\ k = 0
     /\ rows = <<>>
     /\ pc # "done"
     /\ result = <<>>

FlagNames ==
  <<"heater", "solar", "ventilation", "transpiration",
    "canopy_convection(h=10LAI)">>

FlagsOf(a, s) ==
  <<FLt(Zero, a.act.Q_heater_w),
    FLt(Zero, a.outside.G_sun_w_m2),
    FLt(Zero, a.act.ACH),
    FLt(Zero, Q_trans_W(a, s)),
    FLt(Zero, a.coup.LAI) /\ FLt(Zero, A_crop(a))>>

\* the names of the flags that hold from the i-th on, appended to acc with
\* '|' between them; "none" when there is none
RECURSIVE LabelFrom(_, _, _)
LabelFrom(on, i, acc) ==
  IF i > Len(FlagNames) THEN (IF acc = "" THEN "none" ELSE acc)
  ELSE LabelFrom(on, i + 1,
                 IF ~on[i] THEN acc
                 ELSE IF acc = "" THEN FlagNames[i]
                 ELSE acc \o "|" \o FlagNames[i])

\* C14: the trigger label of every row names exactly the flags whose
\* condition holds (heater, solar, ventilation, that step's transpiration,
\* canopy convection on the configured LAI and the crop area), in that order
\* with '|' between them, "none" when no flag holds; the labels of a run
\* differ in nothing but the transpiration flag.
TriggerLabelExact ==
  /\ \A i \in 1..Len(rows) :
        rows[i].Triggers = LabelFrom(FlagsOf(args, StateAfter(args, i - 1)), 1, "")
  /\ \A i \in 1..Len(rows) :
        rows[i].Triggers \in
          {LabelFrom(<<FLt(Zero, args.act.Q_heater_w),
                       FLt(Zero, args.outside.G_sun_w_m2),
                       FLt(Zero, args.act.ACH),
                       transpiring,
                       FLt(Zero, args.coup.LAI) /\ FLt(Zero, A_crop(args))>>,
                     1, "") : transpiring \in BOOLEAN}

\* saturated air that the heater dries: the transpiration flag is missing
\* from the first row and present in the second
TriggerLabelReached ==
  /\ Len(rows) >= 2
  /\ rows[1].Triggers = "heater|canopy_convection(h=10LAI)"
  /\ rows[2].Triggers = "heater|transpiration|canopy_convection(h=10LAI)"

\* the canopy temperature one step would give if its convection and
\* transpiration were computed from the air already updated in that step
CanopyFromUpdatedAir(a, s) ==
  FAdd(s.T_can,
       FMul(dTcan_dt(a, [T_air |-> T_air_next(a, s),
                         v_air |-> v_air_next(a, s), T_can |-> s.T_can]),
            a.dt_s))

\* C15: every iteration computes its fluxes from the air temperature, canopy
\* temperature and humidity it started with: the new humidity, the new air
\* temperature and the new canopy temperature are all functions of the old
\* state (the canopy update does not see the new air temperature), and only
\* the relative humidity is computed from the new air temperature and
\* humidity.
FluxesFromStartOfStep ==
  [][(pc = "loop" /\ k' = k + 1) =>
       /\ v_air' = FMax(Zero, FAdd(v_air, dAH(args, State)))
       /\ T_air' =
            FAdd(T_air,
                 FMul(FDiv(FAdd(FAdd(FAdd(FAdd(Q_env_W(args, State),
                                               Q_vent_sens_W(args, State)),
                                          args.act.Q_heater_w),
                                     Q_solar_air_W(args)),
                                Q_conv_can_to_air_W(args, State)),
                           FMul(FMul(args.air.rho, args.air.cp), V(args.geom))),
                      args.dt_s))
       /\ T_can' =
            FAdd(T_can,
                 FMul(FDiv(FSub(FSub(Q_solar_can_W(args),
                                     Q_conv_can_to_air_W(args, State)),
                                Q_trans_W(args, State)),
                           FMul(args.plant.C_can_areal, A_crop(args))),
                      args.dt_s))
       /\ RH_air' = rh_from_abs_humidity(T_air', v_air')]_vars

\* a first step after which the canopy temperature is the one computed from
\* the initial air, which differs from the one the updated air would give,
\* and the relative humidity is not that of the initial air
FluxesFromStartOfStepReached ==
  /\ pc = "loop"
  /\ k = 1
  /\ T_can = T_can_next(args, InitialState(args))
  /\ T_can # CanopyFromUpdatedAir(args, InitialState(args))
  /\ T_air # InitialState(args).T_air
  /\ RH_air # rh_from_abs_humidity(InitialState(args).T_air,
                                   InitialState(args).v_air)

\* x added n times to 0.0, one addition after the other
RECURSIVE RepeatedSum(_, _)
RepeatedSum(x, n) == IF n = 0 THEN Zero ELSE FAdd(RepeatedSum(x, n - 1), x)

\* the four pairs of a cumulative field and its per-step field, and the
\* summary total of each
EnergyFields ==
  {<<"heater_gas_m3_cum", "heater_gas_m3_step", "heater_gas_total_m3">>,
   <<"heater_elec_kwh_cum", "heater_elec_kwh_step", "heater_elec_total_kwh">>,
   <<"cooling_elec_kwh_cum", "cooling_elec_kwh_step", "cooling_elec_total_kwh">>,
   <<"vents_elec_kwh_cum", "vents_elec_kwh_step", "vents_elec_total_kwh">>}

\* C16 as stated: in the row with index k every cumulative field is (k+1)
\* times the per-step consumption of that row, and the summary total is
\* (stepCount+1) times it.
CumulativeIsMultiple ==
  /\ \A i \in 1..Len(rows) : \A f \in EnergyFields :
        rows[i][f[1]] = FMul(FromInt(i), rows[i][f[2]])
  /\ pc = "done" =>
       \A f \in EnergyFields :
          result[1][f[3]] = FMul(FromInt(steps + 1), rows[1][f[2]])

\* C16 as amended: every per-step consumption is rate * dt_s/3600 (rate/1000
\* for the electrical rates); the totals start at zero and in the row with
\* index k every cumulative field is the per-step consumption added k+1
\* times, one float addition per iteration, so the t = 0 row carries exactly
\* one step; the summary total is that sum after stepCount+1 additions.
CumulativeIsRunningSum ==
  /\ \A i \in 1..Len(rows) :
        /\ rows[i].heater_gas_m3_step =
             FMul(args.act.heater_gas_m3_h, FDiv(args.dt_s, FromInt(3600)))
        /\ rows[i].heater_elec_kwh_step =
             FMul(FDiv(args.act.heater_elec_w, FromInt(1000)),
                  FDiv(args.dt_s, FromInt(3600)))
        /\ rows[i].cooling_elec_kwh_step =
             FMul(FDiv(args.act.cooling_elec_w, FromInt(1000)),
                  FDiv(args.dt_s, FromInt(3600)))
        /\ rows[i].vents_elec_kwh_step =
             FMul(FDiv(args.act.vents_elec_w, FromInt(1000)),
                  FDiv(args.dt_s, FromInt(3600)))
        /\ \A f \in EnergyFields :
              rows[i][f[1]] = RepeatedSum(rows[i][f[2]], i)
  /\ rows # <<>> =>
       \A f \in EnergyFields : rows[1][f[1]] = rows[1][f[2]]
  /\ pc = "done" =>
       \A f \in EnergyFields :
          result[1][f[3]] = RepeatedSum(rows[1][f[2]], steps + 1)

\* a sixth row whose cumulative gas is the step added six times and is not
\* six times the step
CumulativeIsRunningSumReached ==
  /\ Len(rows) >= 6
  /\ FLt(Zero, rows[1].heater_gas_m3_step)
  /\ rows[1].heater_gas_m3_cum = rows[1].heater_gas_m3_step
  /\ rows[6].heater_gas_m3_cum = RepeatedSum(rows[6].heater_gas_m3_step, 6)
  /\ rows[6].heater_gas_m3_cum # FMul(FromInt(6), rows[6].heater_gas_m3_step)

\* the last row of the returned dictionary
LastRow == result[1].rows[Len(result[1].rows)]

\* C17: the summary of a completed call agrees with its last row: final air
\* temperature and relative humidity, the four energy totals, and the total
\* electricity, which is the sum of the three electricity totals.
SummaryMatchesLastRow ==
  pc = "done" =>
    /\ result[1].rows = rows
    /\ result[1].Tin_final_C = LastRow.Tair_C
    /\ result[1].RHin_final_pct = LastRow.RH_air_pct
    /\ result[1].heater_gas_total_m3 = LastRow.heater_gas_m3_cum
    /\ result[1].heater_elec_total_kwh = LastRow.heater_elec_kwh_cum
    /\ result[1].cooling_elec_total_kwh = LastRow.cooling_elec_kwh_cum
    /\ result[1].vents_elec_total_kwh = LastRow.vents_elec_kwh_cum
    /\ result[1].total_elec_kwh =
         FAdd(FAdd(result[1].heater_elec_total_kwh,
                   result[1].cooling_elec_total_kwh),
              result[1].vents_elec_total_kwh)
    /\ result[1].total_elec_kwh = LastRow.total_elec_kwh_cum

\* a completed run of three rows whose last row differs from its first in
\* temperature and in every electricity total
SummaryMatchesLastRowReached ==
  /\ pc = "done"
  /\ Len(result[1].rows) = 3
  /\ result[1].Tin_final_C # result[1].rows[1].Tair_C
  /\ FLt(Zero, result[1].rows[1].vents_elec_kwh_cum)
  /\ FLt(result[1].rows[1].vents_elec_kwh_cum, result[1].vents_elec_total_kwh)
  /\ FLt(result[1].rows[1].total_elec_kwh_cum, result[1].total_elec_kwh)

=============================================================================
